---- MODULE Spec2Model ----
(***************************************************************************)
(* A model of the subjects module of Amethyst.js (src/amethyst.js).        *)
(*                                                                         *)
(* The module keeps a registry `_store` of subject definitions, two lists  *)
(* of save hooks, and exposes save / load / unload / view and the two      *)
(* hook-registration functions.  Everything runs synchronously, so every   *)
(* public call is one action; what happened inside the call (callbacks     *)
(* invoked, registry writes, properties attached) is recorded, in order,   *)
(* in `last.log`, together with the call's arguments and its outcome.      *)
(***************************************************************************)
EXTENDS Integers, Sequences, FiniteSets, TLC

VARIABLES
  store,      \* _store: subject name -> the options object saved under it
  saveHooks,  \* saveHooks: [before, after], each the list of registered hooks
  hosts,      \* the host objects ("contexts") subjects are loaded into
  shared,     \* a variable captured in the defining scope of the subjects
  last        \* the last public call: operation, arguments, outcome, log

vars == <<store, saveHooks, hosts, shared, last>>

(***************************************************************************)
(* Bounds of the model.                                                    *)
(***************************************************************************)
\* definitions passed to one call of save
MaxArgs == 2
\* subject references passed to one call of load
MaxRefs == 2
\* hooks registered over the whole run
MaxHooks == 2
\* what a host's `_n` and the generation of a slot reach before loads stop
MaxLoads == 2
\* nested _load frames the call stack holds
MaxDepth == 4

(***************************************************************************)
(* Values.                                                                 *)
(***************************************************************************)
Hosts == {"H1", "H2"}

\* The receiver a function gets when it is called detached from any object.
Global == "global"

\* `null` / `undefined` where a name is expected.
NoName == "<none>"

\* Names that every JavaScript object inherits from Object.prototype; the
\* registry is the plain object literal `{}`, so `_store[name]` finds them.
ProtoNames == {"toString"}

\* Values of the variable captured in the subjects' defining scope.
SharedVals == {0, 1}

\* JavaScript values, as far as the module inspects them.  A function
\* carries what it does (body) and the receiver it was bound to, if any;
\* an object created by the loader carries the generation of its slot, which
\* makes two objects created by two loads distinct.
Undefined == [t |-> "undefined"]
Unbound == "<unbound>"
Fn(body) == [t |-> "function", body |-> body, boundThis |-> Unbound, gen |-> 0]
Str(s) == [t |-> "string", v |-> s]
Arr(elems) == [t |-> "array", v |-> elems]
Truthy(x) == x.t # "undefined"

\* Hooks handed to before.save / after.save: an observer, a hook that
\* throws, and a value that is not a function.
HookFns == {Fn("obs"), Fn("boom")}
NotAFunction == Str("hook")

\* Hooks that call A.subjects.save({name: name, options: options}) with the
\* name and options they were called with:
\*   "resave"   if (busy) return; busy = true;
\*              try { A.subjects.save(...) } finally { busy = false }
\*   "reenter"  A.subjects.save(...), unconditionally
ReentrantHooks == {Fn("resave"), Fn("reenter")}

NoSubjects == <<>>

(***************************************************************************)
(* The subject definitions the callers pass to save.  A definition is the  *)
(* object {name, options}; the identity of the options object is the id.   *)
(*   optionsClass: what Object.prototype.toString.call(options) yields     *)
(*   loaded:   absent, or a function with body                             *)
(*             "counter" this._n = (this._n || 0) + 1; return this._n      *)
(*             "argc"    return arguments.length                           *)
(*             "picky"   if (arguments.length) throw new Error(); return 0 *)
(*             "throw"   throw new Error()                                 *)
(*   unloaded: absent, or a function                                       *)
(*   api:      absent ("none"), a single function ("fn", the function is   *)
(*             the val of the one entry) or a mapping ("map"); entries are *)
(*             [key, own, val] in enumeration order, own = FALSE for a     *)
(*             property inherited through the prototype chain              *)
(*   subjects: the `subjects` property: subjectsKind is "absent",          *)
(*             "object" or "other" (truthy, not a plain object); for an    *)
(*             object, its entries [key, own, val] in enumeration order;   *)
(*             `family` depends on counter and, with an array value, on    *)
(*             leaf; `leafCyc` depends on family, which closes a cycle;    *)
(*             `leafProto` depends on a name no save can write;            *)
(*             `familyTop` depends on parent and leaf, and `leafDep`, like *)
(*             parent, on counter: a diamond                               *)
(* API functions: "getN" returns this._n, "put" writes the captured        *)
(* variable, "peek" reads it.                                              *)
(***************************************************************************)
ObjectClass == "[object Object]"

CounterApi ==
  << [key |-> "get",  own |-> TRUE,  val |-> Fn("getN")],
     [key |-> "put",  own |-> TRUE,  val |-> Fn("put")],
     [key |-> "peek", own |-> TRUE,  val |-> Fn("peek")],
     [key |-> "ver",  own |-> TRUE,  val |-> Str("1.0")],
     [key |-> "base", own |-> FALSE, val |-> Fn("getN")] >>

SingleFn(body) == << [key |-> "()", own |-> TRUE, val |-> Fn(body)] >>

\* A definition that save refuses: no name, or options that are no object.
Refused(name, class) ==
  [name |-> name, optionsClass |-> class,
   loaded |-> Undefined, unloaded |-> Undefined,
   api |-> "none", apiEntries |-> <<>>,
   subjectsKind |-> "absent", subjects |-> NoSubjects]

Catalogue ==
  [ counter  |-> [name |-> "counter", optionsClass |-> ObjectClass,
                  loaded |-> Fn("counter"), unloaded |-> Fn("unloaded"),
                  api |-> "map", apiEntries |-> CounterApi,
                  subjectsKind |-> "absent", subjects |-> NoSubjects],
    counter2 |-> [name |-> "counter", optionsClass |-> ObjectClass,
                  loaded |-> Undefined, unloaded |-> Undefined,
                  api |-> "none", apiEntries |-> <<>>,
                  subjectsKind |-> "absent", subjects |-> NoSubjects],
    parent   |-> [name |-> "parent", optionsClass |-> ObjectClass,
                  loaded |-> Fn("argc"), unloaded |-> Fn("unloaded"),
                  api |-> "fn", apiEntries |-> SingleFn("getN"),
                  subjectsKind |-> "object",
                  subjects |-> << [key |-> "counter", own |-> TRUE,
                                   val |-> Str("counter")] >>],
    tostr    |-> [name |-> "toString", optionsClass |-> ObjectClass,
                  loaded |-> Fn("argc"), unloaded |-> Undefined,
                  api |-> "fn", apiEntries |-> SingleFn("getN"),
                  subjectsKind |-> "absent", subjects |-> NoSubjects],
    leaf     |-> [name |-> "leaf", optionsClass |-> ObjectClass,
                  loaded |-> Fn("argc"), unloaded |-> Undefined,
                  api |-> "fn", apiEntries |-> SingleFn("getN"),
                  subjectsKind |-> "absent", subjects |-> NoSubjects],
    leafCyc  |-> [name |-> "leaf", optionsClass |-> ObjectClass,
                  loaded |-> Fn("argc"), unloaded |-> Undefined,
                  api |-> "none", apiEntries |-> <<>>,
                  subjectsKind |-> "object",
                  subjects |-> << [key |-> "family", own |-> TRUE,
                                   val |-> Str("family")] >>],
    leafProto |-> [name |-> "leaf", optionsClass |-> ObjectClass,
                  loaded |-> Fn("argc"), unloaded |-> Undefined,
                  api |-> "fn", apiEntries |-> SingleFn("getN"),
                  subjectsKind |-> "object",
                  subjects |-> << [key |-> "toString", own |-> TRUE,
                                   val |-> Str("toString")] >>],
    leafDep  |-> [name |-> "leaf", optionsClass |-> ObjectClass,
                  loaded |-> Fn("argc"), unloaded |-> Undefined,
                  api |-> "fn", apiEntries |-> SingleFn("getN"),
                  subjectsKind |-> "object",
                  subjects |-> << [key |-> "counter", own |-> TRUE,
                                   val |-> Str("counter")] >>],
    leafPicky |-> [name |-> "leaf", optionsClass |-> ObjectClass,
                  loaded |-> Fn("picky"), unloaded |-> Undefined,
                  api |-> "fn", apiEntries |-> SingleFn("getN"),
                  subjectsKind |-> "absent", subjects |-> NoSubjects],
    family   |-> [name |-> "family", optionsClass |-> ObjectClass,
                  loaded |-> Fn("argc"), unloaded |-> Undefined,
                  api |-> "fn", apiEntries |-> SingleFn("getN"),
                  subjectsKind |-> "object",
                  subjects |-> << [key |-> "counter", own |-> TRUE,
                                   val |-> Str("counter")],
                                  [key |-> "leaf", own |-> TRUE,
                                   val |-> Arr(<<"leaf", "a">>)] >>],
    familyTop |-> [name |-> "family", optionsClass |-> ObjectClass,
                  loaded |-> Fn("argc"), unloaded |-> Undefined,
                  api |-> "fn", apiEntries |-> SingleFn("getN"),
                  subjectsKind |-> "object",
                  subjects |-> << [key |-> "parent", own |-> TRUE,
                                   val |-> Str("parent")],
                                  [key |-> "leaf", own |-> TRUE,
                                   val |-> Str("leaf")] >>],
    noname   |-> Refused(NoName, ObjectClass),
    empty    |-> Refused(NoName, "[object Undefined]"),
    noopts   |-> Refused("counter", "[object Undefined]"),
    arropts  |-> Refused("counter", "[object Array]"),
    fnopts   |-> Refused("counter", "[object Function]"),
    stropts  |-> Refused("counter", "[object String]"),
    numopts  |-> Refused("counter", "[object Number]") ]

DefIds == DOMAIN Catalogue

\* What `_store[name]` yields for an inherited name: a function of
\* Object.prototype, which has no subjects, loaded, unloaded or api property.
\* The empty object literal that _load starts from has none either.
Inherited ==
  [name |-> NoName, optionsClass |-> "[object Function]",
   loaded |-> Undefined, unloaded |-> Undefined,
   api |-> "none", apiEntries |-> <<>>,
   subjectsKind |-> "absent", subjects |-> NoSubjects]

\* Subject names a save can write, and the names a caller may ask for.
SubjectNames == {Catalogue[d].name : d \in DefIds} \ {NoName}
Absent == "<absent>"

\* The local `subject` of _load holds a saved options object, the function
\* found under an inherited name, or the initial empty object literal.
InheritedId == "<inherited>"
EmptyId == "<empty>"
Definition(id) == IF id \in DefIds THEN Catalogue[id] ELSE Inherited

(***************************************************************************)
(* Utility functions (src/amethyst.js 30-40).                              *)
(***************************************************************************)
\* isObject applied to the `options` of a definition.
isObject_typeof(d) == d.optionsClass \in {ObjectClass, "[object Array]"}

isObject(d) == d.optionsClass = ObjectClass

isArray(x) == x.t = "array"

isFunction(x) == x.t = "function"

(***************************************************************************)
(* The machine state threaded through one public call: the module's        *)
(* variables, the events so far, the pending exception ("none" when no     *)
(* exception is propagating), `i`, the function-scoped loop variable of   *)
(* the running save, and `nesting`, the number of calls of save that are   *)
(* on the call stack below the running one.                                *)
(***************************************************************************)
Machine ==
  [store |-> store, saveHooks |-> saveHooks, hosts |-> hosts,
   shared |-> shared, log |-> <<>>, err |-> "none", i |-> 0, nesting |-> 0]

Throw(m, e) == [m EXCEPT !.err = e]
Emit(m, e) == [m EXCEPT !.log = Append(@, e)]

(***************************************************************************)
(* Utility functions for subjects (src/amethyst.js 65-83).                 *)
(***************************************************************************)
\* typeof _store[name] !== "undefined": own entries and inherited ones.
isInStore_neverOwn(st, name) == name \in ProtoNames

isInStore(st, name) == name \in ProtoNames \/ st[name] # Absent

\* _store[name], as the id of what is found there.
storeGet(st, name) == IF st[name] # Absent THEN st[name] ELSE InheritedId

thereAreBeforeSaveHooks(m) == Len(m.saveHooks.before) # 0

thereAreAfterSaveHooks(m) == Len(m.saveHooks.after) # 0

saveSubject_replacesStore(m, name, options) ==
  Emit([m EXCEPT !.store = [x \in SubjectNames |->
                              IF x = name THEN options ELSE Absent]],
       [ev |-> "write", name |-> name, def |-> options,
        present |-> isInStore(m.store, name)])

saveSubject(m, name, options) ==
  Emit([m EXCEPT !.store[name] = options],
       [ev |-> "write", name |-> name, def |-> options,
        present |-> isInStore(m.store, name)])

(***************************************************************************)
(* save (src/amethyst.js 87-125).                                          *)
(***************************************************************************)
RECURSIVE save(_, _)

\* A call of save made by a hook while a save is running.  The inner call
\* has its own `i`; the caller's is untouched when the call returns.  The
\* call stack holds MaxDepth nested calls.
reenter(m, options) ==
  IF m.nesting >= MaxDepth THEN Throw(m, "RangeError")
  ELSE LET r == save([m EXCEPT !.nesting = @ + 1], <<options>>)
       IN  [r EXCEPT !.i = m.i, !.nesting = m.nesting]

\* One hook invocation, saveHooks.<phase>[i](name, options).
callHook(m, phase, fn, name, options) ==
  LET m1 == Emit(m, [ev |-> "hook", phase |-> phase, fn |-> fn.body,
                     index |-> m.i, name |-> name, def |-> options,
                     present |-> m.store[name] # Absent,
                     stored |-> m.store[name]])
  IN  IF fn.body = "boom" THEN Throw(m1, "HookError")
      ELSE IF fn.body = "reenter" THEN reenter(m1, options)
      ELSE IF fn.body = "resave" /\ m.nesting = 0 THEN reenter(m1, options)
      ELSE m1

\* for (var i = saveHooks.<phase>.length - 1; i >= 0; i--) ...  The loop
\* variable is the `i` of save itself: JavaScript's `var` is function-scoped.
RECURSIVE hookLoop(_, _, _, _)
hookLoop(m, phase, name, options) ==
  IF m.i < 0 THEN m
  ELSE LET m1 == callHook(m, phase, m.saveHooks[phase][m.i + 1], name, options)
       IN  IF m1.err # "none" THEN m1
           ELSE hookLoop([m1 EXCEPT !.i = @ - 1], phase, name, options)

runBeforeSaveHooks(m, name, options) ==
  IF thereAreBeforeSaveHooks(m)
  THEN hookLoop([m EXCEPT !.i = Len(m.saveHooks.before) - 1],
                "before", name, options)
  ELSE m

runAfterSaveHooks(m, name, options) ==
  IF thereAreAfterSaveHooks(m)
  THEN hookLoop([m EXCEPT !.i = Len(m.saveHooks.after) - 1],
                "after", name, options)
  ELSE m

\* Lines 107-122: before hooks, the registry write, after hooks.
hooksAndWrite_afterFirst(m, name, options) ==
  LET m1 == runBeforeSaveHooks(m, name, options)
      m2 == IF m1.err # "none" THEN m1
            ELSE runAfterSaveHooks(m1, name, options)
  IN  IF m2.err # "none" THEN m2 ELSE saveSubject(m2, name, options)

hooksAndWrite_rollsBack(m, name, options) ==
  LET m1 == runBeforeSaveHooks(m, name, options)
      m2 == runAfterSaveHooks(saveSubject(m1, name, options), name, options)
  IN  IF m1.err # "none" THEN m1
      ELSE IF m2.err # "none" THEN [m2 EXCEPT !.store = m1.store]
      ELSE m2

hooksAndWrite_writeFirst(m, name, options) ==
  LET m1 == saveSubject(m, name, options)
      m2 == runBeforeSaveHooks(m1, name, options)
  IN  IF m2.err # "none" THEN m2 ELSE runAfterSaveHooks(m2, name, options)

hooksAndWrite(m, name, options) ==
  LET m1 == runBeforeSaveHooks(m, name, options)
  IN  IF m1.err # "none" THEN m1
      ELSE runAfterSaveHooks(saveSubject(m1, name, options), name, options)

\* The body of the loop over the arguments, for arguments[m.i].
RECURSIVE saveLoop_keepsGoing(_, _)
saveLoop_keepsGoing(m, arguments) ==
  IF m.i < 0 THEN m
  ELSE LET options == arguments[m.i + 1]
           arg     == Catalogue[options]
           m0      == Emit([m EXCEPT !.err = "none"],
                           [ev |-> "visit", index |-> m.i,
                            name |-> arg.name, def |-> options])
           m1      == IF arg.name = NoName THEN Throw(m0, "MissingName")
                      ELSE IF ~isObject(arg)
                      THEN Throw(m0, "InvalidDefinition")
                      ELSE IF isInStore(m0.store, arg.name)
                      THEN Throw(m0, "DuplicateName")
                      ELSE hooksAndWrite(m0, arg.name, options)
       IN  saveLoop_keepsGoing(
             [m1 EXCEPT !.i = @ - 1,
                        !.err = IF m.err # "none" THEN m.err ELSE @],
             arguments)

\* The loop with the hooks called before the test for a registered name.
RECURSIVE saveLoop_hooksFirst(_, _)
saveLoop_hooksFirst(m, arguments) ==
  IF m.i < 0 THEN m
  ELSE LET options == arguments[m.i + 1]
           arg     == Catalogue[options]
           m0      == Emit(m, [ev |-> "visit", index |-> m.i,
                               name |-> arg.name, def |-> options])
           mb      == runBeforeSaveHooks(m0, arg.name, options)
           m1      == runAfterSaveHooks(saveSubject(mb, arg.name, options),
                                        arg.name, options)
       IN  IF arg.name = NoName THEN Throw(m0, "MissingName")
           ELSE IF ~isObject(arg) THEN Throw(m0, "InvalidDefinition")
           ELSE IF mb.err # "none" THEN mb
           ELSE IF isInStore(mb.store, arg.name)
           THEN Throw(mb, "DuplicateName")
           ELSE IF m1.err # "none" THEN m1
           ELSE saveLoop_hooksFirst([m1 EXCEPT !.i = @ - 1], arguments)

RECURSIVE saveLoop(_, _)
saveLoop(m, arguments) ==
  IF m.i < 0 THEN m
  ELSE LET options == arguments[m.i + 1]
           arg     == Catalogue[options]
           m0      == Emit(m, [ev |-> "visit", index |-> m.i,
                               name |-> arg.name, def |-> options])
       IN  IF arg.name = NoName THEN Throw(m0, "MissingName")
           ELSE IF ~isObject(arg) THEN Throw(m0, "InvalidDefinition")
           ELSE IF isInStore(m0.store, arg.name) THEN Throw(m0, "DuplicateName")
           ELSE LET m1 == hooksAndWrite(m0, arg.name, options)
                IN  IF m1.err # "none" THEN m1
                    ELSE saveLoop([m1 EXCEPT !.i = @ - 1], arguments)

save(m, arguments) == saveLoop([m EXCEPT !.i = Len(arguments) - 1], arguments)

(***************************************************************************)
(* Host objects.  A host has the property `_n` the counter subject keeps   *)
(* on its receiver (0 while it is not set) and one slot per subject name.  *)
(***************************************************************************)
FreshHost == [n |-> 0, props |-> [x \in SubjectNames |-> Undefined]]

\* Function.prototype.bind: a new function whose receiver is fixed; binding
\* an already bound function does not change its receiver.
bind_keepsCallSite(f, this, g) == [f EXCEPT !.gen = g]

bind(f, this, g) ==
  [f EXCEPT !.boundThis = IF @ = Unbound THEN this ELSE @, !.gen = g]

\* The receiver a function runs with when it is called with receiver `site`.
receiverOf(f, site) == IF f.boundThis = Unbound THEN site ELSE f.boundThis

\* The generation of the next object stored in this[name].
nextGen(m, this, name) ==
  LET cur == m.hosts[this].props[name]
  IN  IF cur.t = "undefined" THEN 1 ELSE cur.gen + 1

(***************************************************************************)
(* Attaching the API (src/amethyst.js 202-220).                            *)
(***************************************************************************)
\* The loop without the hasOwnProperty test of line 214.
RECURSIVE boundEntries_inheritedToo(_, _, _, _)
boundEntries_inheritedToo(entries, this, g, k) ==
  IF k > Len(entries) THEN <<>>
  ELSE LET e == entries[k]
       IN  << [key |-> e.key,
               val |-> IF isFunction(e.val) THEN bind(e.val, this, g)
                       ELSE e.val] >>
           \o boundEntries_inheritedToo(entries, this, g, k + 1)

\* The loop over the keys of subject.api that fills boundAPI.
RECURSIVE boundEntries(_, _, _, _)
boundEntries(entries, this, g, k) ==
  IF k > Len(entries) THEN <<>>
  ELSE LET e    == entries[k]
           rest == boundEntries(entries, this, g, k + 1)
       IN  IF ~e.own THEN rest
           ELSE << [key |-> e.key,
                    val |-> IF isFunction(e.val) THEN bind(e.val, this, g)
                            ELSE e.val] >> \o rest

\* A load that leaves alone a slot that is already filled.
attachApi_keepsExisting(m, this, name, subject) ==
  LET d == Definition(subject)
      g == nextGen(m, this, name)
  IN  IF d.api = "none" \/ m.hosts[this].props[name].t # "undefined" THEN m
      ELSE Emit([m EXCEPT !.hosts[this].props[name] =
                   IF d.api = "fn" THEN bind(d.apiEntries[1].val, this, g)
                   ELSE [t |-> "object", gen |-> g,
                         entries |-> boundEntries(d.apiEntries, this, g, 1)]],
                [ev |-> "attach", name |-> name, def |-> subject,
                 this |-> this])

\* The working definition, bound once and handed to every later host.
attachApi_reusesBound(m, this, name, subject) ==
  LET d      == Definition(subject)
      g      == nextGen(m, this, name)
      others == {h \in Hosts \ {this} : m.hosts[h].props[name].t # "undefined"}
      fresh  == IF d.api = "fn" THEN bind(d.apiEntries[1].val, this, g)
                ELSE [t |-> "object", gen |-> g,
                      entries |-> boundEntries(d.apiEntries, this, g, 1)]
  IN  IF d.api = "none" THEN m
      ELSE Emit([m EXCEPT !.hosts[this].props[name] =
                   IF others = {} THEN fresh
                   ELSE m.hosts[CHOOSE h \in others : TRUE].props[name]],
                [ev |-> "attach", name |-> name, def |-> subject,
                 this |-> this])

attachApi(m, this, name, subject) ==
  LET d == Definition(subject)
      g == nextGen(m, this, name)
  IN  IF d.api = "none" THEN m
      ELSE IF d.api = "fn"
      THEN Emit([m EXCEPT !.hosts[this].props[name] =
                             bind(d.apiEntries[1].val, this, g)],
                [ev |-> "attach", name |-> name, def |-> subject,
                 this |-> this])
      ELSE Emit([m EXCEPT !.hosts[this].props[name] =
                   [t |-> "object", gen |-> g,
                    entries |-> boundEntries(d.apiEntries, this, g, 1)]],
                [ev |-> "attach", name |-> name, def |-> subject,
                 this |-> this])

(***************************************************************************)
(* The callbacks of the subjects, run with receiver `this`.  The event     *)
(* records this[name] as it is while the callback runs.                    *)
(***************************************************************************)
loadedThrows(f, argsArray) ==
  f.body = "throw" \/ (f.body = "picky" /\ Len(argsArray) > 0)

\* The call with the API of the subject attached before the callback runs.
callLoaded_attachesFirst(m, this, f, argsArray, name, subject, depth) ==
  LET ma   == attachApi(m, this, name, subject)
      recv == receiverOf(f, this)
      n1   == ma.hosts[recv].n + 1
      ret  == IF f.body = "counter" THEN n1 ELSE Len(argsArray)
      m1   == IF f.body = "counter"
              THEN [ma EXCEPT !.hosts[recv].n = n1] ELSE ma
      ev   == [ev |-> "loaded", name |-> name, def |-> subject,
               this |-> recv, args |-> argsArray, depth |-> depth,
               slot |-> ma.hosts[this].props[name],
               ret |-> ret, throws |-> FALSE]
  IN  IF loadedThrows(f, argsArray)
      THEN [m |-> Throw(Emit(ma, [ev EXCEPT !.ret = 0, !.throws = TRUE]),
                        "LoadedError"),
            ret |-> 0]
      ELSE [m |-> Emit(m1, ev), ret |-> ret]

\* subject.loaded.apply(this, argsArray); the result is [m, ret].
callLoaded(m, this, f, argsArray, name, subject, depth) ==
  LET recv == receiverOf(f, this)
      n1   == m.hosts[recv].n + 1
      ret  == IF f.body = "counter" THEN n1 ELSE Len(argsArray)
      m1   == IF f.body = "counter"
              THEN [m EXCEPT !.hosts[recv].n = n1] ELSE m
      ev   == [ev |-> "loaded", name |-> name, def |-> subject,
               this |-> recv, args |-> argsArray, depth |-> depth,
               slot |-> m.hosts[this].props[name],
               ret |-> ret, throws |-> FALSE]
  IN  IF loadedThrows(f, argsArray)
      THEN [m |-> Throw(Emit(m, [ev EXCEPT !.ret = 0, !.throws = TRUE]),
                        "LoadedError"),
            ret |-> 0]
      ELSE [m |-> Emit(m1, ev), ret |-> ret]

(***************************************************************************)
(* _load and _loadDeps (src/amethyst.js 129-225).  A frame of _load holds  *)
(* its locals: subject, name, argsArray, loadedResults and the index i.    *)
(* Both operators yield [m, ret]: the machine state and the value returned.*)
(***************************************************************************)
NewFrame(arguments) ==
  [subject |-> EmptyId, name |-> "", argsArray |-> <<>>,
   loadedResults |-> <<>>, i |-> Len(arguments) - 1]

RECURSIVE _load(_, _, _, _)
RECURSIVE _loadLoop(_, _, _, _, _)
RECURSIVE _loadDeps(_, _, _, _)
RECURSIVE _loadDepsLoop(_, _, _, _, _)

\* Lines 139-143: the reference built for the entry subjects[key]: the key
\* and the value, the value wrapped in an array unless it is one.
_loadDepsArgs_bareEmpty(e) ==
  IF isArray(e.val) THEN Arr(<<e.key, e.val.v>>)
  ELSE Arr(<<e.key, <<>> >>)

_loadDepsArgs_tail(e) ==
  IF isArray(e.val) THEN Arr(<<e.key, Tail(e.val.v)>>)
  ELSE Arr(<<e.key, <<e.val.v>> >>)

_loadDepsArgs(e) ==
  IF isArray(e.val) THEN Arr(<<e.key, e.val.v>>)
  ELSE Arr(<<e.key, <<e.val.v>> >>)

\* for (key in subjects) { ... _load.apply(context, [args]); }
_loadDepsLoop_firstOnly(m, context, entries, k, depth) ==
  IF k > Len(entries) \/ k > 1 THEN m
  ELSE _load(m, context, <<_loadDepsArgs(entries[k])>>, depth).m

\* The loop with a dependency skipped when the host has its API already.
RECURSIVE _loadDepsLoop_oncePerHost(_, _, _, _, _)
_loadDepsLoop_oncePerHost(m, context, entries, k, depth) ==
  IF k > Len(entries) THEN m
  ELSE LET e    == entries[k]
           args == _loadDepsArgs(e)
       IN  IF ~e.own \/ m.hosts[context].props[e.key].t # "undefined"
           THEN _loadDepsLoop_oncePerHost(m, context, entries, k + 1, depth)
           ELSE LET r == _load(m, context, <<args>>, depth)
                IN  IF r.m.err # "none" THEN r.m
                    ELSE _loadDepsLoop_oncePerHost(r.m, context, entries,
                                                   k + 1, depth)

_loadDepsLoop(m, context, entries, k, depth) ==
  IF k > Len(entries) THEN m
  ELSE LET e    == entries[k]
           args == _loadDepsArgs(e)
       IN  IF ~e.own THEN _loadDepsLoop(m, context, entries, k + 1, depth)
           ELSE LET r == _load(m, context, <<args>>, depth)
                IN  IF r.m.err # "none" THEN r.m
                    ELSE _loadDepsLoop(r.m, context, entries, k + 1, depth)

_loadDeps_skipped(m, context, subject, depth) == m

_loadDeps(m, context, subject, depth) ==
  LET d == Definition(subject)
  IN  IF d.subjectsKind # "object" THEN Throw(m, "SubjectsNotObject")
      ELSE _loadDepsLoop(m, context, d.subjects, 1, depth)

\* Lines 202-221 for one argument, then the next iteration of the loop.
\* The API attached is that of the frame's current `subject` and `name`.
_loadAttach_onPrototype(m, this, f) ==
  LET m1 == attachApi(m, this, f.name, f.subject)
  IN  [m1 EXCEPT !.hosts =
         [h \in Hosts |->
            [m1.hosts[h] EXCEPT !.props[f.name] = m1.hosts[this].props[f.name]]]]

_loadAttach(m, this, f) == attachApi(m, this, f.name, f.subject)

\* One iteration of the loop over the arguments, for arguments[f.i].
_loadLoop(m, this, arguments, f, depth) ==
  IF f.i < 0
  THEN [m |-> Emit(m, [ev |-> "return", depth |-> depth,
                       results |-> f.loadedResults]),
        ret |-> f.loadedResults]
  ELSE
    LET ref == arguments[f.i + 1] IN
    IF isArray(ref) \/ ref.t = "string"
    THEN
      LET name == IF isArray(ref) THEN ref.v[1] ELSE ref.v
          m0   == Emit(m, [ev |-> "ref", name |-> name, this |-> this,
                           index |-> f.i, depth |-> depth,
                           slot |-> m.hosts[this].props[name]])
      IN
      IF ~isInStore(m0.store, name)
      THEN [m |-> Throw(m0, "NotFound"), ret |-> <<>>]
      ELSE
        LET subject == storeGet(m0.store, name)
            d       == Definition(subject)
            m1      == IF d.subjectsKind # "absent"
                       THEN _loadDeps(m0, this, subject, depth + 1)
                       ELSE m0
            argsArr == IF isArray(ref) /\ Len(ref.v) > 1 THEN ref.v[2]
                       ELSE f.argsArray
            passed  == IF isArray(ref) THEN argsArr ELSE <<>>
        IN
        IF m1.err # "none" THEN [m |-> m1, ret |-> <<>>]
        ELSE
          LET r  == IF Truthy(d.loaded) /\ isFunction(d.loaded)
                    THEN callLoaded(m1, this, d.loaded, passed, name,
                                    subject, depth)
                    ELSE [m |-> m1, ret |-> 0]
              f1 == [f EXCEPT
                       !.subject = subject, !.name = name,
                       !.argsArray = argsArr,
                       !.loadedResults =
                          IF Truthy(d.loaded) /\ isFunction(d.loaded)
                          THEN Append(@, r.ret) ELSE @]
          IN
          IF r.m.err # "none" THEN [m |-> r.m, ret |-> <<>>]
          ELSE _loadLoop(_loadAttach(r.m, this, f1), this, arguments,
                         [f1 EXCEPT !.i = @ - 1], depth)
    ELSE _loadLoop(_loadAttach(m, this, f), this, arguments,
                   [f EXCEPT !.i = @ - 1], depth)

\* A call of _load: a new frame on the call stack, which holds MaxDepth
\* frames; one more is the engine's stack overflow (a RangeError).
_load_cutsRecursion(m, this, arguments, depth) ==
  IF depth > 1 THEN [m |-> m, ret |-> <<>>]
  ELSE _loadLoop(m, this, arguments, NewFrame(arguments), depth)

_load(m, this, arguments, depth) ==
  IF depth > MaxDepth THEN [m |-> Throw(m, "RangeError"), ret |-> <<>>]
  ELSE _loadLoop(m, this, arguments, NewFrame(arguments), depth)

(***************************************************************************)
(* load and unload (src/amethyst.js 227-238).                              *)
(***************************************************************************)
\* load calls _load on arguments[0] with the other arguments and has no
\* return statement: its caller gets `undefined`.
load(m, context, s) ==
  LET r == _load(m, context, s, 0)
  IN  [m |-> r.m, ret |-> Undefined]

\* unload(context, name): s is the array of the arguments after the context,
\* used as a property key, which for one name is that name.
unload_detaches(m, context, name) ==
  IF ~isInStore(m.store, name) THEN Throw(m, "NotFound")
  ELSE LET d  == Definition(storeGet(m.store, name))
           m1 == [m EXCEPT !.hosts[context].props[name] = Undefined]
       IN  IF Truthy(d.unloaded) /\ isFunction(d.unloaded)
           THEN Emit(m1, [ev |-> "unloaded", name |-> name,
                          def |-> storeGet(m.store, name),
                          this |-> receiverOf(d.unloaded, context)])
           ELSE m1

unload(m, context, name) ==
  IF ~isInStore(m.store, name) THEN Throw(m, "NotFound")
  ELSE LET d == Definition(storeGet(m.store, name))
       IN  IF Truthy(d.unloaded) /\ isFunction(d.unloaded)
           THEN Emit(m, [ev |-> "unloaded", name |-> name,
                         def |-> storeGet(m.store, name),
                         this |-> receiverOf(d.unloaded, context)])
           ELSE m

(***************************************************************************)
(* Calling a function of an attached API, as the users of a host do:       *)
(* host.x.m(), or detached (var f = host.x.m; f()), or through another     *)
(* object.  `site` is the receiver of the call expression.                 *)
(***************************************************************************)
numberOf(m, recv) == IF recv \in Hosts THEN m.hosts[recv].n ELSE 0

callApi(m, f, site, v, path) ==
  LET recv == receiverOf(f, site)
      ret  == IF f.body = "getN" THEN numberOf(m, recv)
              ELSE IF f.body = "peek" THEN m.shared ELSE 0
      m1   == IF f.body = "put" THEN [m EXCEPT !.shared = v] ELSE m
  IN  Emit(m1, [ev |-> "api", body |-> f.body, this |-> recv,
                path |-> path, ret |-> ret])

(***************************************************************************)
(* The inputs of the public calls.                                         *)
(***************************************************************************)
\* The argument lists of a call: one to n values of S.
SeqsUpTo(S, n) == UNION {[1..k -> S] : k \in 1..n}

refName(ref) == IF isArray(ref) THEN ref.v[1] ELSE ref.v

\* Loads into a host stop once one of its counters reaches MaxLoads.
WithinBudget(h) ==
  /\ hosts[h].n < MaxLoads
  /\ \A x \in SubjectNames :
       hosts[h].props[x].t # "undefined" => hosts[h].props[x].gen < MaxLoads

HookCount == Len(saveHooks.before) + Len(saveHooks.after)

Outcome(op, host, args, m, ret) ==
  [op |-> op, host |-> host, args |-> args, ret |-> ret,
   err |-> m.err, log |-> m.log]

Commit(m) ==
  /\ store' = m.store
  /\ saveHooks' = m.saveHooks
  /\ hosts' = m.hosts
  /\ shared' = m.shared

(***************************************************************************)
(* The state after the module has been evaluated, and the public calls.    *)
(* Each call takes the sets its inputs are drawn from.                     *)
(***************************************************************************)
Init ==
  /\ store = [x \in SubjectNames |-> Absent]
  /\ saveHooks = [before |-> <<>>, after |-> <<>>]
  /\ hosts = [h \in Hosts |-> FreshHost]
  /\ shared = 0
  /\ last = [op |-> "init", host |-> "", args |-> <<>>, ret |-> Undefined,
             err |-> "none", log |-> <<>>]

\* A.subjects.save(d1, ..., dn)
Save(defs, max) ==
  \E arguments \in SeqsUpTo(defs, max) :
    LET m == save(Machine, arguments)
    IN  /\ Commit(m)
        /\ last' = Outcome("save", "", arguments, m, Undefined)

\* A.subjects.load(host, r1, ..., rn)
Load(hs, refs, max) ==
  \E h \in hs, s \in SeqsUpTo(refs, max) :
    /\ WithinBudget(h)
    /\ LET r == load(Machine, h, s)
       IN  /\ Commit(r.m)
           /\ last' = Outcome("load", h, s, r.m,
                              IF r.m.err = "none" THEN r.ret ELSE Undefined)

\* A.subjects.unload(host, name)
Unload(hs, names) ==
  \E h \in hs, name \in names :
    LET m == unload(Machine, h, name)
    IN  /\ Commit(m)
        /\ last' = Outcome("unload", h, <<name>>, m, Undefined)

\* A.subjects.view(): logs _store when there is a console.
View ==
  /\ last' = Outcome("view", "", <<>>, Machine, Undefined)
  /\ UNCHANGED <<store, saveHooks, hosts, shared>>

\* A.subjects.before.save(func) and A.subjects.after.save(func)
addHook_prepends(m, phase, func) ==
  IF ~isFunction(func) THEN Throw(m, "NotCallable")
  ELSE [m EXCEPT !.saveHooks[phase] = <<func>> \o @]

addHook(m, phase, func) ==
  IF ~isFunction(func) THEN Throw(m, "NotCallable")
  ELSE [m EXCEPT !.saveHooks[phase] = Append(@, func)]

BeforeSave(funcs) ==
  \E func \in funcs :
    /\ HookCount < MaxHooks
    /\ LET m == addHook(Machine, "before", func)
       IN  /\ Commit(m)
           /\ last' = Outcome("before.save", "", <<func>>, m, Undefined)

AfterSave(funcs) ==
  \E func \in funcs :
    /\ HookCount < MaxHooks
    /\ LET m == addHook(Machine, "after", func)
       IN  /\ Commit(m)
           /\ last' = Outcome("after.save", "", <<func>>, m, Undefined)

\* A call of host[x] (a single function) or of a function host[x][key],
\* with the receiver `site` at the call.
apiFunctions(p) ==
  IF p.t = "function" THEN {[key |-> "()", val |-> p]}
  ELSE IF p.t = "object"
  THEN {p.entries[k] : k \in {j \in 1..Len(p.entries) :
                                 isFunction(p.entries[j].val)}}
  ELSE {}

argumentsFor(f) == IF f.body = "put" THEN SharedVals ELSE {0}

Invoke(hs, names, sites) ==
  \E h \in hs, x \in names, site \in sites :
    \E e \in apiFunctions(hosts[h].props[x]) :
      \E v \in argumentsFor(e.val) :
        LET m == callApi(Machine, e.val, site, v, <<h, x, e.key>>)
        IN  /\ Commit(m)
            /\ last' = Outcome("invoke", h, <<x, e.key, site, v>>, m,
                               Undefined)

(***************************************************************************)
(* Spec: the whole public surface, with every kind of save and of hook;    *)
(* loads and unloads use one host and single references.                   *)
(***************************************************************************)
CoreDefs == {"counter", "counter2", "parent"}

Next ==
  \/ Save(CoreDefs, MaxArgs)
  \/ BeforeSave(HookFns \cup {NotAFunction})
  \/ AfterSave(HookFns \cup {NotAFunction})
  \/ Load({"H1"}, {Str("parent")}, 1)
  \/ Unload({"H1"}, {"counter", "parent"})
  \/ View

Spec == Init /\ [][Next]_vars

(***************************************************************************)
(* SpecLoad: loads of several references into one host, with bare and      *)
(* array references and a name that is never saved; no hook is registered. *)
(***************************************************************************)
LoadRefs ==
  {Str("counter"), Str("parent"), Str("toString"),
   Arr(<<"counter", <<"a">> >>), Arr(<<"parent", <<"a">> >>)}

NextLoad ==
  \/ Save(CoreDefs, 1)
  \/ Load({"H1"}, LoadRefs, MaxRefs)
  \/ Unload({"H1"}, SubjectNames)

SpecLoad == Init /\ [][NextLoad]_vars

(***************************************************************************)
(* SpecHosts: one subject loaded into two hosts, and calls of the attached *)
(* functions on a host, detached, or through the other host.               *)
(***************************************************************************)
NextHosts ==
  \/ Save({"counter", "parent"}, 1)
  \/ Load(Hosts, {Str("counter"), Str("parent")}, 1)
  \/ Unload(Hosts, {"counter"})
  \/ Invoke(Hosts, {"counter", "parent"}, Hosts \cup {Global})

SpecHosts == Init /\ [][NextHosts]_vars

(***************************************************************************)
(* SpecSave: saves of one or several definitions, valid, refused or named  *)
(* like a registered one, with every kind of hook; nothing is loaded.      *)
(***************************************************************************)
SaveDefs == {"counter", "parent", "noname", "stropts"}

RefusedDefs ==
  {"noname", "empty", "noopts", "arropts", "fnopts", "stropts", "numopts"}

NextSave ==
  \/ Save(SaveDefs, MaxArgs)
  \/ Save(RefusedDefs, 1)
  \/ BeforeSave(HookFns \cup {NotAFunction})
  \/ AfterSave(HookFns \cup {NotAFunction})

SpecSave == Init /\ [][NextSave]_vars

(***************************************************************************)
(* SpecDeps: loads of subjects that declare dependencies: two of them, one *)
(* with an array value; one that is not registered; a cycle.               *)
(***************************************************************************)
DepDefs == {"counter", "leaf", "leafCyc", "leafProto", "family"}

NextDeps ==
  \/ Save(DepDefs, 1)
  \/ Load({"H1"}, {Str("family"), Str("leaf")}, 1)

SpecDeps == Init /\ [][NextDeps]_vars

(***************************************************************************)
(* SpecReentry: saves while hooks are registered that call save themselves *)
(* for the definition they are called with.                                *)
(***************************************************************************)
NextReentry ==
  \/ Save(CoreDefs, MaxArgs)
  \/ BeforeSave(ReentrantHooks \cup {Fn("obs")})
  \/ AfterSave(ReentrantHooks \cup {Fn("obs")})

SpecReentry == Init /\ [][NextReentry]_vars

(***************************************************************************)
(* SpecThrow: loads of a subject whose `loaded` throws when it is given    *)
(* arguments, alone, after other references and as a dependency.           *)
(***************************************************************************)
ThrowDefs == {"counter", "leafPicky", "family"}

ThrowRefs ==
  {Str("counter"), Str("leaf"), Arr(<<"leaf", <<"a">> >>), Str("family")}

NextThrow ==
  \/ Save(ThrowDefs, 1)
  \/ Load({"H1"}, ThrowRefs, MaxRefs)

SpecThrow == Init /\ [][NextThrow]_vars

(***************************************************************************)
(* SpecDiamond: loads of subjects whose dependencies share a dependency:   *)
(* family -> {parent, leaf} -> counter, and family -> {counter, leaf}      *)
(* with leaf -> counter.                                                   *)
(***************************************************************************)
DiamondDefs == {"counter", "parent", "leaf", "leafDep", "family", "familyTop"}

DiamondRefs == {Str("family"), Str("leaf"), Str("parent"), Str("counter")}

NextDiamond ==
  \/ Save(DiamondDefs, 1)
  \/ Load({"H1"}, DiamondRefs, 1)

SpecDiamond == Init /\ [][NextDiamond]_vars

(***************************************************************************)
(* SpecArgs: loads of several references to one subject, with and without  *)
(* arguments, into the two hosts.                                          *)
(***************************************************************************)
ArgRefs ==
  {Str("counter"), Arr(<<"counter">>), Arr(<<"counter", <<"a">> >>)}

NextArgs ==
  \/ Save({"counter", "counter2"}, 1)
  \/ Load(Hosts, ArgRefs, MaxRefs)

SpecArgs == Init /\ [][NextArgs]_vars

(***************************************************************************)
(* Properties of the registry and of save.                                 *)
(***************************************************************************)
Saved == {x \in SubjectNames : store[x] # Absent}

LastEvent == last.log[Len(last.log)]

\* The positions of the events of a log that satisfy P.
Indices(log, P(_)) == {k \in 1..Len(log) : P(log[k])}

\* C1: a save whose definition (valid options) carries a name that an
\* earlier save has written fails with the duplicate-name error and leaves
\* the registry as it was: the name still maps to the first options object
\* and no other entry has changed.  The definition meant is the one the call
\* looks at first; for a call with one definition, that definition.
C1_Step ==
  LET args == last'.args
      d    == args[Len(args)]
  IN  ( /\ last'.op = "save"
        /\ Len(args) > 0
        /\ isObject(Catalogue[d])
        /\ store[Catalogue[d].name] # Absent )
      => /\ last'.err = "DuplicateName"
         /\ store' = store

C1_DuplicateSaveRejected == [][C1_Step]_vars

\* C1 witness: a second definition with the same name, a different options
\* object, has just been refused and the first one is still stored.
C1_Witness ==
  /\ last.op = "save"
  /\ Len(last.args) = 1
  /\ last.err = "DuplicateName"
  /\ store[Catalogue[last.args[1]].name] \in DefIds \ {last.args[1]}

\* C2: the registry is append-only: whatever call is made, a name that is in
\* the registry stays in it, mapped to the options object stored first.
C2_Step == \A x \in SubjectNames : store[x] # Absent => store'[x] = store[x]

ThrowingBeforeHook(log, k) ==
  /\ log[k].ev = "hook"
  /\ log[k].phase = "before"
  /\ log[k].fn = "boom"

WrittenBefore(log, k, x) ==
  \E j \in 1..(k - 1) : log[j].ev = "write" /\ log[j].name = x

C7_Step ==
  LET log == last'.log IN
  \A k \in 1..Len(log) :
    (last'.op = "save" /\ ThrowingBeforeHook(log, k))
    => /\ last'.err = "HookError"
       /\ k = Len(log)
       /\ store'[log[k].name] = Absent
       /\ \A j \in 1..Len(log) :
            log[j].name = log[k].name =>
              /\ log[j].ev # "write"
              /\ ~(log[j].ev = "hook" /\ log[j].phase = "after")
       /\ \A x \in SubjectNames :
            store'[x] # store[x] => WrittenBefore(log, k, x)

C7_RejectionIsAtomic == [][C7_Step]_vars

\* C7 witness: a save has just been aborted by a throwing before-save hook
\* and the name of the definition is not in the registry.
C7_Witness ==
  /\ last.op = "save"
  /\ last.err = "HookError"
  /\ Len(last.log) > 0
  /\ ThrowingBeforeHook(last.log, Len(last.log))
  /\ store[LastEvent.name] = Absent

(***************************************************************************)
(* Properties of the hooks and of the phases of save.                      *)
(***************************************************************************)
IsVisit(e) == e.ev = "visit"
IsWrite(e) == e.ev = "write"
IsBeforeHook(e) == e.ev = "hook" /\ e.phase = "before"
IsAfterHook(e) == e.ev = "hook" /\ e.phase = "after"
BeforeCalls(log) == SelectSeq(log, IsBeforeHook)
AfterCalls(log) == SelectSeq(log, IsAfterHook)

\* The calls are those of the registered hooks, one each, first registered
\* first, each with the name and the options object of definition d.
InRegistrationOrder(calls, hooks, d) ==
  /\ Len(calls) = Len(hooks)
  /\ \A k \in 1..Len(calls) :
       /\ calls[k].index = k - 1
       /\ calls[k].fn = hooks[k].body
       /\ calls[k].name = Catalogue[d].name
       /\ calls[k].def = d

\* C11 as claimed: a save of one definition that completes has invoked each
\* registered before-save hook once, in the order of registration, with the
\* name and the definition, and likewise each after-save hook.
C11_HooksInRegistrationOrder ==
  (last.op = "save" /\ Len(last.args) = 1 /\ last.err = "none")
  => /\ InRegistrationOrder(BeforeCalls(last.log), saveHooks.before,
                            last.args[1])
     /\ InRegistrationOrder(AfterCalls(last.log), saveHooks.after,
                            last.args[1])

\* C12: for every definition a save writes, all the before-save hooks have
\* run before the write, with the name not in the registry, and the
\* after-save hooks run after the write, with the name mapped to the saved
\* options; all of them when the save completes.  No before-save hook ever
\* sees its name registered.
C12_PhaseOrder ==
  last.op = "save" =>
    LET log == last.log IN
    /\ \A k \in Indices(log, IsBeforeHook) : ~log[k].present
    /\ \A w \in Indices(log, IsWrite) :
         LET x  == log[w].name
             d  == log[w].def
             bs == Indices(log, LAMBDA e : IsBeforeHook(e) /\ e.name = x)
             as == Indices(log, LAMBDA e : IsAfterHook(e) /\ e.name = x)
         IN  /\ Cardinality(bs) = Len(saveHooks.before)
             /\ \A k \in bs : k < w /\ log[k].def = d
             /\ \A k \in as : k > w /\ log[k].def = d /\ log[k].stored = d
             /\ last.err = "none" => Cardinality(as) = Len(saveHooks.after)
             /\ store[x] = d

\* C12 witness: a save has completed with a before-save and an after-save
\* hook registered and has written its definition between their calls.
C12_Witness ==
  /\ last.op = "save"
  /\ last.err = "none"
  /\ Len(saveHooks.before) > 0
  /\ Len(saveHooks.after) > 0
  /\ Len(last.log) = 4
  /\ IsBeforeHook(last.log[2])
  /\ IsWrite(last.log[3])
  /\ IsAfterHook(last.log[4])

Valid(d) == Catalogue[d].name # NoName /\ isObject(Catalogue[d])

\* C13 as claimed: a save of valid definitions with pairwise distinct names,
\* none registered, that returns normally has registered every one of them
\* and has invoked every registered hook once for each.
C13_Step ==
  LET args == last'.args
      log  == last'.log
  IN  ( /\ last'.op = "save"
        /\ last'.err = "none"
        /\ \A k \in 1..Len(args) :
             /\ Valid(args[k])
             /\ store[Catalogue[args[k]].name] = Absent
             /\ \A j \in 1..Len(args) :
                  j # k => Catalogue[args[j]].name # Catalogue[args[k]].name )
      => \A k \in 1..Len(args) :
           /\ store'[Catalogue[args[k]].name] = args[k]
           /\ Cardinality(Indices(log, LAMBDA e :
                 IsBeforeHook(e) /\ e.def = args[k])) = Len(saveHooks.before)
           /\ Cardinality(Indices(log, LAMBDA e :
                 IsAfterHook(e) /\ e.def = args[k])) = Len(saveHooks.after)

C13_AllDefinitionsRegistered == [][C13_Step]_vars

\* C14: when a save of several definitions fails, the failure is the last
\* thing that happens in the call (the refusal of a definition, or the throw
\* of a hook); the definitions written before it are in the registry, the
\* registry has changed in nothing else, and a definition that occurs only
\* at positions the call has not reached has been passed to no hook and has
\* not been registered by this call.
Reached(log) == {log[k].index + 1 : k \in Indices(log, IsVisit)}

C14_Step ==
  LET args == last'.args
      log  == last'.log
      n    == Len(log)
  IN  (last'.op = "save" /\ Len(args) > 1 /\ last'.err # "none")
      => /\ n > 0
         /\ \/ IsVisit(log[n])
            \/ log[n].ev = "hook" /\ log[n].fn = "boom"
         /\ \A k \in 1..(n - 1) :
              /\ IsVisit(log[k]) =>
                   log[k + 1].ev \in {"hook", "write"}
                   /\ log[k + 1].def = log[k].def
              /\ log[k].ev = "hook" => log[k].fn # "boom"
         /\ \A k \in Indices(log, IsWrite) : store'[log[k].name] = log[k].def
         /\ \A x \in SubjectNames :
              store'[x] # store[x] =>
                \E k \in Indices(log, IsWrite) : log[k].name = x
         /\ \A p \in (1..Len(args)) \ Reached(log) :
              (\A q \in Reached(log) : args[q] # args[p])
              => /\ \A k \in 1..n : log[k].def # args[p]
                 /\ Catalogue[args[p]].name # NoName =>
                      \/ store'[Catalogue[args[p]].name] # args[p]
                      \/ store[Catalogue[args[p]].name] = args[p]

C14_FailureStopsSave == [][C14_Step]_vars

\* C14 witness: a save of two definitions has registered the one it looked
\* at first and has failed on the other.
C14_Witness ==
  /\ last.op = "save"
  /\ Len(last.args) = 2
  /\ last.err \in {"MissingName", "InvalidDefinition", "DuplicateName"}
  /\ Indices(last.log, IsWrite) # {}
  /\ Cardinality(Reached(last.log)) = 2

\* C15: a definition that save looks at and that has no name is refused
\* with the missing-name error; one that has a name and options that are not
\* a plain object (absent, array, function, string, number) is refused with
\* the invalid-definition error; the call ends there, the definition is not
\* written, and the registry differs from the one before the call only by
\* the definitions the call wrote before.
C15_Step ==
  LET log == last'.log IN
  last'.op = "save" =>
    \A k \in Indices(log, IsVisit) :
      LET d == Catalogue[log[k].def] IN
      /\ d.name = NoName => last'.err = "MissingName"
      /\ (d.name # NoName /\ d.optionsClass # ObjectClass)
           => last'.err = "InvalidDefinition"
      /\ (d.name = NoName \/ d.optionsClass # ObjectClass)
           => /\ k = Len(log)
              /\ Len(last'.args) = 1 => store' = store
              /\ \A x \in SubjectNames :
                   store'[x] # store[x] =>
                     /\ store'[x] # log[k].def
                     /\ \E j \in 1..(k - 1) :
                          IsWrite(log[j]) /\ log[j].name = x

C15_InvalidDefinitionRefused == [][C15_Step]_vars

\* C15 witness: a definition whose options are an array has been refused
\* with the invalid-definition error while its name was not registered.
C15_Witness ==
  /\ last.op = "save"
  /\ last.args = <<"arropts">>
  /\ last.err = "InvalidDefinition"
  /\ store[Catalogue["arropts"].name] = Absent

\* C16: before.save(fn) and after.save(fn) with fn not a function fail with
\* the not-callable error and leave both hook lists as they were; with a
\* function they append it to the end of the list of that phase and leave
\* the other list and the registry as they were.
C16_Registered(phase, other) ==
  LET func == last'.args[1] IN
  IF isFunction(func)
  THEN /\ last'.err = "none"
       /\ saveHooks'[phase] = Append(saveHooks[phase], func)
       /\ saveHooks'[other] = saveHooks[other]
       /\ store' = store
  ELSE /\ last'.err = "NotCallable"
       /\ saveHooks' = saveHooks
       /\ store' = store

C16_Step ==
  /\ last'.op = "before.save" => C16_Registered("before", "after")
  /\ last'.op = "after.save" => C16_Registered("after", "before")

C16_HookRegistration == [][C16_Step]_vars

\* C16 witness: a second, different function has been appended to the list
\* of after-save hooks, the list of before-save hooks being empty.
C16_Witness ==
  /\ last.op = "after.save"
  /\ last.err = "none"
  /\ Len(saveHooks.after) = 2
  /\ saveHooks.after[1] # saveHooks.after[2]
  /\ saveHooks.after[2] = last.args[1]
  /\ saveHooks.before = <<>>

\* C27: when an after-save hook throws for a definition, save ends there
\* with the hook's error: the definition is, and stays, registered; no
\* other after-save hook runs for it and no other definition of the call is
\* looked at afterwards.
ThrowingAfterHook(log, k) ==
  /\ log[k].ev = "hook"
  /\ log[k].phase = "after"
  /\ log[k].fn = "boom"

C27_Step ==
  LET log == last'.log IN
  \A k \in 1..Len(log) :
    (last'.op = "save" /\ ThrowingAfterHook(log, k))
    => /\ last'.err = "HookError"
       /\ k = Len(log)
       /\ store[log[k].name] = Absent
       /\ store'[log[k].name] = log[k].def
       /\ \E w \in 1..(k - 1) :
            IsWrite(log[w]) /\ log[w].def = log[k].def

C27_AfterHookThrowKeepsWrite == [][C27_Step]_vars

\* C27 witness: of two after-save hooks the one called first has thrown in
\* a save of two definitions: the definition is registered, the other hook
\* has not been called and the other definition has not been looked at.
C27_Witness ==
  /\ last.op = "save"
  /\ Len(last.args) = 2
  /\ last.err = "HookError"
  /\ Len(saveHooks.after) = 2
  /\ Len(AfterCalls(last.log)) = 1
  /\ Cardinality(Reached(last.log)) = 1
  /\ ThrowingAfterHook(last.log, Len(last.log))
  /\ store[LastEvent.name] = LastEvent.def

\* C30: a definition that save refuses (no name, options that are not a
\* plain object, or a name that is registered when save looks at it) is
\* refused before any hook is called for it: the refusal follows the look
\* at the definition at once and ends the call.
RegisteredAt(log, k, x) ==
  x # NoName /\ (store[x] # Absent \/ WrittenBefore(log, k, x))

C30_Step ==
  LET log == last'.log IN
  last'.op = "save" =>
    \A k \in Indices(log, IsVisit) :
      LET d == Catalogue[log[k].def] IN
      ( \/ d.name = NoName
        \/ d.optionsClass # ObjectClass
        \/ RegisteredAt(log, k, d.name) )
      => /\ k = Len(log)
         /\ last'.err \in {"MissingName", "InvalidDefinition", "DuplicateName"}

C30_NoHookForRefused == [][C30_Step]_vars

\* C30 witness: with a before-save and an after-save hook registered, a
\* definition whose name is registered has been refused and no hook has
\* been called.
C30_Witness ==
  /\ last.op = "save"
  /\ last.err = "DuplicateName"
  /\ Len(saveHooks.before) > 0
  /\ Len(saveHooks.after) > 0
  /\ Len(last.log) = 1
  /\ store[Catalogue[last.args[Len(last.args)]].name] # Absent


(***************************************************************************)
(* C31.  Every registry write made by save stores a name that is absent    *)
(* from the registry at the moment of the write, also when a before-save   *)
(* hook calls save for the same name while the outer save is running: no   *)
(* registration of the name falls between the test of line 104 and the     *)
(* write of line 115.                                                      *)
(***************************************************************************)
C31_WriteOnlyAbsentNames ==
  last.op = "save" =>
    \A k \in DOMAIN last.log :
      IsWrite(last.log[k]) => ~last.log[k].present

(***************************************************************************)
(* Properties of load and unload.                                          *)
(***************************************************************************)
IsLoadedOf(e, x, depth) == e.ev = "loaded" /\ e.name = x /\ e.depth = depth

\* The references a call of _load visits at the top level, in the order of
\* the visits, and the handles its `loaded` callbacks return.
IsTopRef(e) == e.ev = "ref" /\ e.depth = 0
IsTopLoaded(e) == e.ev = "loaded" /\ e.depth = 0
TopRefs(log) == SelectSeq(log, IsTopRef)
TopHandles(log) ==
  LET ls == SelectSeq(log, IsTopLoaded)
  IN  [k \in 1..Len(ls) |-> ls[k].ret]

Attached(h, x) == hosts[h].props[x].t # "undefined"

\* C3 as claimed: a load with a reference, at any position, to a name that
\* no save has written fails with the not-found error and leaves the host
\* as it was, without any `loaded` callback having run.
C3_Step ==
  ( /\ last'.op = "load"
    /\ \E k \in 1..Len(last'.args) : store[refName(last'.args[k])] = Absent )
  => /\ last'.err = "NotFound"
     /\ hosts' = hosts
     /\ Indices(last'.log, LAMBDA e : e.ev = "loaded") = {}

C3_MissingRefLeavesHostUntouched == [][C3_Step]_vars

\* C6: a load of a registered parent whose declared dependencies are all
\* registered completes; the `loaded` callback of every dependency has run,
\* with the host as receiver, before the parent's own, which also has the
\* host as receiver; afterwards the API of the dependency and of the parent
\* are on the host (for those that define an api).
DepKeys(d) == {d.subjects[k].key : k \in 1..Len(d.subjects)}

C6_Case(p) ==
  /\ last.op = "load"
  /\ Len(last.args) = 1
  /\ refName(last.args[1]) = p
  /\ store[p] # Absent
  /\ DepKeys(Catalogue[store[p]]) # {}
  /\ \A c \in DepKeys(Catalogue[store[p]]) :
       /\ store[c] # Absent
       /\ DepKeys(Catalogue[store[c]]) = {}

C6_ChildLoadedBeforeParent ==
  \A p \in SubjectNames :
    C6_Case(p) =>
      LET log     == last.log
          h       == last.host
          parents == Indices(log, LAMBDA e : IsLoadedOf(e, p, 0))
      IN  /\ last.err = "none"
          /\ isFunction(Catalogue[store[p]].loaded) =>
               /\ Cardinality(parents) = 1
               /\ \A j \in parents : log[j].this = h
          /\ Catalogue[store[p]].api # "none" => Attached(h, p)
          /\ \A c \in DepKeys(Catalogue[store[p]]) :
               LET children == Indices(log, LAMBDA e : IsLoadedOf(e, c, 1))
               IN  /\ isFunction(Catalogue[store[c]].loaded) =>
                        /\ children # {}
                        /\ \A i \in children :
                             /\ log[i].this = h
                             /\ \A j \in parents : i < j
                   /\ Catalogue[store[c]].api # "none" => Attached(h, c)

\* C6 witness: parent and its dependency, both with a `loaded` callback and
\* an api, have been loaded by one load of the parent, given as an array
\* reference with arguments.
C6_Witness ==
  /\ C6_Case("parent")
  /\ isArray(last.args[1])
  /\ store["counter"] = "counter"
  /\ Indices(last.log, LAMBDA e : IsLoadedOf(e, "counter", 1)) # {}
  /\ Indices(last.log, LAMBDA e : IsLoadedOf(e, "parent", 0)) # {}
  /\ Attached(last.host, "counter")
  /\ Attached(last.host, "parent")

\* C8: unload(H, x), for a registered x that defines `unloaded` and whose
\* API a load has attached to H, runs that callback once with receiver H,
\* runs no other callback, and leaves every property of H, H.x included,
\* as it was.
C8_Step ==
  LET h == last'.host
      x == last'.args[1]
  IN  ( /\ last'.op = "unload"
        /\ store[x] # Absent
        /\ isFunction(Catalogue[store[x]].unloaded)
        /\ hosts[h].props[x].t # "undefined" )
      => /\ last'.err = "none"
         /\ Len(last'.log) = 1
         /\ last'.log[1].ev = "unloaded"
         /\ last'.log[1].name = x
         /\ last'.log[1].this = h
         /\ hosts' = hosts

C8_UnloadRunsCallbackOnly == [][C8_Step]_vars

\* C8 witness: an unload has run the callback of a subject whose API is, and
\* stays, attached to the host.
C8_Witness ==
  /\ last.op = "unload"
  /\ last.err = "none"
  /\ Len(last.log) = 1
  /\ last.log[1].ev = "unloaded"
  /\ last.log[1].this = last.host
  /\ Attached(last.host, last.args[1])

\* C9 as claimed: a load that completes returns the handles of its top-level
\* references, in order; for the counter subject that is [k] for the k-th
\* load into a host.
C9_LoadReturnsHandles ==
  (last.op = "load" /\ last.err = "none")
  => last.ret = Arr(TopHandles(last.log))

\* C10 as claimed: a load of registered subjects visits the references in
\* the order of the call: the k-th reference visited at the top level is the
\* k-th argument, and the handles are collected in that order.
C10_RefsInCallOrder ==
  ( /\ last.op = "load"
    /\ last.err = "none"
    /\ \A k \in 1..Len(last.args) : store[refName(last.args[k])] # Absent )
  =>
    /\ Len(TopRefs(last.log)) = Len(last.args)
    /\ \A k \in 1..Len(TopRefs(last.log)) : TopRefs(last.log)[k].index = k - 1

\* C17 as claimed: unload(host, name) of a name that no save has written
\* fails with the not-found error and invokes nothing; of a registered name
\* without an `unloaded` callback it completes, invokes nothing and leaves
\* the hosts as they were.
C17_Step ==
  LET x == last'.args[1] IN
  last'.op = "unload" =>
    /\ store[x] = Absent =>
         /\ last'.err = "NotFound"
         /\ last'.log = <<>>
    /\ (store[x] # Absent /\ ~isFunction(Catalogue[store[x]].unloaded)) =>
         /\ last'.err = "none"
         /\ last'.log = <<>>
         /\ hosts' = hosts

C17_UnloadOfUnknownName == [][C17_Step]_vars

\* C18: a load that names a registered subject whose API is already on the
\* host runs the subject's `loaded` callback again, once for each reference
\* to it, puts a new object, bound to the host, in place of host[name], and
\* runs no `unloaded` callback.
RefsTo(args, x) == {k \in 1..Len(args) : refName(args[k]) = x}

C18_Step ==
  \A x \in SubjectNames :
    LET h   == last'.host
        log == last'.log
    IN  ( /\ last'.op = "load"
          /\ last'.err = "none"
          /\ RefsTo(last'.args, x) # {}
          /\ store[x] # Absent
          /\ hosts[h].props[x].t # "undefined" )
        => /\ isFunction(Catalogue[store[x]].loaded) =>
                Cardinality(Indices(log, LAMBDA e : IsLoadedOf(e, x, 0)))
                  = Cardinality(RefsTo(last'.args, x))
           /\ hosts'[h].props[x].t = hosts[h].props[x].t
           /\ hosts'[h].props[x] # hosts[h].props[x]
           /\ hosts'[h].props[x].gen > hosts[h].props[x].gen
           /\ \A e \in apiFunctions(hosts'[h].props[x]) : e.val.boundThis = h
           /\ Indices(log, LAMBDA e : e.ev = "unloaded") = {}

C18_ReloadRebinds == [][C18_Step]_vars

\* C18 witness: the counter subject has been loaded a second time into the
\* host: its callback has run twice there and the slot holds the second
\* object.
C18_Witness ==
  /\ last.op = "load"
  /\ last.err = "none"
  /\ last.args = <<Str("counter")>>
  /\ hosts[last.host].n = 2
  /\ hosts[last.host].props["counter"].t = "object"
  /\ hosts[last.host].props["counter"].gen = 2

\* C19: after a load of a registered subject x into host H has completed,
\* H[x] is, for an api that is a mapping, a mapping with the own keys of the
\* api and no other, in their order, each function entry being that function
\* bound to H and each other entry the value itself; for an api that is one
\* function, that function bound to H; and for a subject without api the
\* slot H[x] is what it was before the load.
OwnEntries(d) == SelectSeq(d.apiEntries, LAMBDA e : e.own)

IsBound(f, g, h) ==
  /\ isFunction(f)
  /\ f.body = g.body
  /\ f.boundThis = h

C19_Shape(d, slot, before, h) ==
  /\ d.api = "map" =>
       /\ slot.t = "object"
       /\ Len(slot.entries) = Len(OwnEntries(d))
       /\ \A k \in 1..Len(slot.entries) :
            LET e == OwnEntries(d)[k] IN
            /\ slot.entries[k].key = e.key
            /\ IF isFunction(e.val)
               THEN IsBound(slot.entries[k].val, e.val, h)
               ELSE slot.entries[k].val = e.val
  /\ d.api = "fn" => IsBound(slot, d.apiEntries[1].val, h)
  /\ d.api = "none" => slot = before

C19_Step ==
  \A x \in SubjectNames :
    LET h == last'.host IN
    ( /\ last'.op = "load"
      /\ last'.err = "none"
      /\ RefsTo(last'.args, x) # {}
      /\ store[x] # Absent )
    => C19_Shape(Catalogue[store[x]], hosts'[h].props[x], hosts[h].props[x], h)

C19_AttachedApiShape == [][C19_Step]_vars

\* C19 witness: the counter subject, whose api is a mapping with three
\* functions, a string and an inherited entry, has been loaded: the slot has
\* the four own entries, the string as it is.
C19_Witness ==
  /\ last.op = "load"
  /\ last.err = "none"
  /\ last.args = <<Str("counter")>>
  /\ store["counter"] = "counter"
  /\ hosts[last.host].props["counter"].t = "object"
  /\ Len(hosts[last.host].props["counter"].entries) = 4
  /\ hosts[last.host].props["counter"].entries[4] =
       [key |-> "ver", val |-> Str("1.0")]

\* C20 as claimed: a dependency that a subject declares with a bare string
\* value is loaded with no arguments: its `loaded` callback gets none.
BareDeps(d) ==
  {k \in 1..Len(d.subjects) :
     d.subjects[k].own /\ d.subjects[k].val.t = "string"}

C20_Case(p) ==
  /\ last.op = "load"
  /\ last.err = "none"
  /\ Len(last.args) = 1
  /\ refName(last.args[1]) = p
  /\ store[p] # Absent

C20_BareDependencyNoArguments ==
  \A p \in SubjectNames :
    C20_Case(p) =>
      \A k \in BareDeps(Catalogue[store[p]]) :
        LET dep == Catalogue[store[p]].subjects[k] IN
        \A j \in Indices(last.log, LAMBDA e : IsLoadedOf(e, dep.key, 1)) :
          last.log[j].args = <<>>

\* C20 amended: a dependency declared with a bare string value is loaded
\* with that value as the only argument of its `loaded` callback.
C20_BareDependencyOneArgument ==
  \A p \in SubjectNames :
    C20_Case(p) =>
      \A k \in BareDeps(Catalogue[store[p]]) :
        LET dep == Catalogue[store[p]].subjects[k] IN
        \A j \in Indices(last.log, LAMBDA e : IsLoadedOf(e, dep.key, 1)) :
          last.log[j].args = <<dep.val.v>>

\* C20 witness: a load of the parent has run the `loaded` callback of the
\* dependency it declares with a bare string.
C20_Witness ==
  /\ C20_Case("parent")
  /\ BareDeps(Catalogue[store["parent"]]) # {}
  /\ Indices(last.log, LAMBDA e : IsLoadedOf(e, "counter", 1)) # {}

\* C21 as claimed: a dependency declared with the array [name, args] has
\* the subject `name` loaded with `loaded` receiving args and not the name.
ArrayDeps(d) ==
  {k \in 1..Len(d.subjects) : d.subjects[k].own /\ isArray(d.subjects[k].val)}

C21_ArrayDependencyArgs ==
  \A p \in SubjectNames :
    C20_Case(p) =>
      \A k \in ArrayDeps(Catalogue[store[p]]) :
        LET dep == Catalogue[store[p]].subjects[k] IN
        \A j \in Indices(last.log, LAMBDA e : IsLoadedOf(e, dep.key, 1)) :
          /\ last.log[j].this = last.host
          /\ last.log[j].args = Tail(dep.val.v)

\* C21 amended: a dependency declared under the key `name` with an array
\* value has the subject `name` loaded into the same host, its `loaded`
\* callback receiving the elements of the array, all of them, as arguments.
C21_ArrayDependencySpread ==
  \A p \in SubjectNames :
    C20_Case(p) =>
      \A k \in ArrayDeps(Catalogue[store[p]]) :
        LET dep == Catalogue[store[p]].subjects[k] IN
        \A j \in Indices(last.log, LAMBDA e : IsLoadedOf(e, dep.key, 1)) :
          /\ last.log[j].this = last.host
          /\ last.log[j].args = dep.val.v

\* C21 witness: a load of family has run the `loaded` callback of leaf,
\* which family declares with an array.
C21_Witness ==
  /\ C20_Case("family")
  /\ ArrayDeps(Catalogue[store["family"]]) # {}
  /\ Indices(last.log, LAMBDA e : IsLoadedOf(e, "leaf", 1)) # {}

\* The dependency graph of the registry: the names a registered subject
\* declares, and the names reachable from them.
DepsOf(x) == IF store[x] = Absent THEN {} ELSE DepKeys(Catalogue[store[x]])

RECURSIVE Closure(_, _)
Closure(S, n) ==
  IF n = 0 THEN S
  ELSE Closure(S \cup UNION {DepsOf(x) : x \in S \cap SubjectNames}, n - 1)

Descendants(x) == Closure(DepsOf(x), Cardinality(SubjectNames))

OnCycle(x) == x \in Descendants(x)

\* C22: a load of one registered subject all of whose transitive
\* dependencies are registered returns normally exactly when no cycle of
\* the dependency graph is reachable from it; with a cycle the recursion
\* goes on until the call stack is exhausted, the load ends with that
\* error, and the `loaded` callback of a subject on the cycle never runs.
C22_Case(p) ==
  /\ last.op = "load"
  /\ Len(last.args) = 1
  /\ refName(last.args[1]) = p
  /\ store[p] # Absent
  /\ \A x \in Descendants(p) : x \in SubjectNames /\ store[x] # Absent

C22_TerminatesIffAcyclic ==
  \A p \in SubjectNames :
    C22_Case(p) =>
      LET cyclic == {x \in {p} \cup Descendants(p) : OnCycle(x)} IN
      /\ cyclic = {} <=> last.err = "none"
      /\ cyclic # {} =>
           /\ last.err = "RangeError"
           /\ \A x \in cyclic :
                Indices(last.log, LAMBDA e : e.ev = "loaded" /\ e.name = x)
                  = {}
           /\ \A j \in Indices(last.log, LAMBDA e : e.ev = "return") :
                last.log[j].depth > 0

\* C22 witness: family depends on leaf and leaf on family; the load of
\* family has ended with the stack exhausted, the dependency that is not on
\* the cycle having been loaded on the way.
C22_Witness ==
  /\ C22_Case("family")
  /\ OnCycle("family")
  /\ last.err = "RangeError"
  /\ Indices(last.log, LAMBDA e : e.ev = "loaded" /\ e.name = "counter") # {}

\* The arguments a reference gives for `loaded`: those of [name, args],
\* none for a bare name and for [name].
GivenArgs(ref) == IF isArray(ref) /\ Len(ref.v) > 1 THEN ref.v[2] ELSE <<>>

\* C23 as claimed: in a load of several references the `loaded` callback
\* run for a reference receives the arguments of that reference and nothing
\* else, whatever the other references are.  (The subjects loaded here have
\* no dependencies: the callback of a reference is the event after it.)
C23_ArgsOfOwnRef ==
  last.op = "load" =>
    \A j \in Indices(last.log, IsTopLoaded) :
      /\ j > 1
      /\ IsTopRef(last.log[j - 1])
      /\ last.log[j].args = GivenArgs(last.args[last.log[j - 1].index + 1])

\* C24 as claimed: the handles a load collects are one for each top-level
\* reference it has processed, in the order of processing, also for a
\* subject without `loaded` callback, and none comes from a dependency.
IsTopReturn(e) == e.ev = "return" /\ e.depth = 0

C24_OneHandlePerRef ==
  (last.op = "load" /\ last.err = "none")
  => \A j \in Indices(last.log, IsTopReturn) :
       /\ Len(last.log[j].results) = Len(TopRefs(last.log))
       /\ Len(last.log[j].results) = Len(last.args)
       /\ last.log[j].results = TopHandles(last.log)

\* C25: when the `loaded` callback of a subject runs in a load, each
\* registered dependency of its `subjects` map has been loaded into the same
\* host in that load: the dependency's `loaded` has run before, with the
\* host as receiver, and its API has been attached to the host before.
OwnDeps(d) ==
  {d.subjects[k].key : k \in {j \in 1..Len(d.subjects) : d.subjects[j].own}}

C25_DependenciesReady ==
  last.op = "load" =>
    LET log == last.log
        h   == last.host
    IN  \A j \in Indices(log, LAMBDA e : e.ev = "loaded") :
          \A c \in OwnDeps(Catalogue[log[j].def]) :
            store[c] # Absent =>
              /\ isFunction(Catalogue[store[c]].loaded) =>
                   \E i \in 1..(j - 1) :
                     /\ IsLoadedOf(log[i], c, log[j].depth + 1)
                     /\ log[i].this = h
              /\ Catalogue[store[c]].api # "none" =>
                   /\ \E i \in 1..(j - 1) :
                        /\ log[i].ev = "attach"
                        /\ log[i].name = c
                        /\ log[i].this = h
                   /\ Attached(h, c)

\* C25 witness: the `loaded` callback of family has run, after those of its
\* two dependencies, in a load that has completed.
C25_Witness ==
  /\ last.op = "load"
  /\ last.err = "none"
  /\ store["counter"] = "counter"
  /\ store["leaf"] = "leaf"
  /\ Indices(last.log, LAMBDA e : IsLoadedOf(e, "family", 0)) # {}
  /\ Indices(last.log, LAMBDA e : IsLoadedOf(e, "leaf", 1)) # {}
  /\ Attached(last.host, "leaf")

\* C26 as claimed: a load of a registered subject that declares a
\* dependency whose name no save has written fails with the not-found
\* error; the subject's own `loaded` has not run and its own API has not
\* been attached; the dependencies declared before the first missing one
\* (those without dependencies of their own) are attached to the host.
MissingDeps(d) ==
  {k \in 1..Len(d.subjects) :
     d.subjects[k].own /\ store[d.subjects[k].key] = Absent}

C26_Step ==
  \A p \in SubjectNames :
    LET h == last'.host
        d == Catalogue[store[p]]
    IN  ( /\ last'.op = "load"
          /\ last'.args = <<Str(p)>>
          /\ store[p] # Absent
          /\ MissingDeps(d) # {} )
        => /\ last'.err = "NotFound"
           /\ Indices(last'.log, LAMBDA e : IsLoadedOf(e, p, 0)) = {}
           /\ hosts'[h].props[p] = hosts[h].props[p]
           /\ \A k \in 1..Len(d.subjects) :
                LET c == d.subjects[k].key IN
                ( /\ \A j \in MissingDeps(d) : k < j
                  /\ DepsOf(c) = {}
                  /\ Catalogue[store[c]].api # "none" )
                => hosts'[h].props[c].t # "undefined"

C26_MissingDependency == [][C26_Step]_vars

\* C28: a load and an unload leave the registry and the hook lists as they
\* were and call no save hook.  A load changes, apart from what the
\* callbacks do (the counter they keep on their receiver), only slots of
\* its host named after a registered subject with an api that it has
\* looked up, at the top level or as a dependency, and nothing on another
\* host.  An unload changes no host.
C28_Step ==
  LET h   == last'.host
      log == last'.log
  IN  last'.op \in {"load", "unload"} =>
        /\ store' = store
        /\ saveHooks' = saveHooks
        /\ Indices(log, LAMBDA e : e.ev \in {"hook", "write", "visit"}) = {}
        /\ \A g \in Hosts \ {h} : hosts'[g] = hosts[g]
        /\ last'.op = "unload" => hosts' = hosts
        /\ \A x \in SubjectNames :
             hosts'[h].props[x] # hosts[h].props[x] =>
               /\ store[x] # Absent
               /\ Catalogue[store[x]].api # "none"
               /\ Indices(log, LAMBDA e : e.ev = "ref" /\ e.name = x) # {}

C29_Step ==
  /\ ( /\ last'.op \in {"load", "unload"}
       /\ Len(last'.args) = 1
       /\ store[IF last'.op = "load" THEN refName(last'.args[1])
                ELSE last'.args[1]] = Absent )
     => last'.err = "NotFound"
  /\ ( /\ last'.op = "save"
       /\ Len(last'.args) = 1
       /\ Valid(last'.args[1])
       /\ store[Catalogue[last'.args[1]].name] = Absent )
     => /\ last'.err = "none"
        /\ store'[Catalogue[last'.args[1]].name] = last'.args[1]

C29_RegisteredIffSaved == [][C29_Step]_vars

(***************************************************************************)
(* C32.  Within a load, the API of a subject is attached to the host only  *)
(* after its `loaded` callback has returned: while `loaded` runs,          *)
(* host[name] is what it was when the processing of the reference began    *)
(* (not set, on a first load); and when `loaded` throws, the load ends     *)
(* with that error, nothing happens after the callback (no later           *)
(* reference is processed) and host[name] is still what it was when the    *)
(* processing of the reference began.                                      *)
(***************************************************************************)
IsRef(e) == e.ev = "ref"
IsLoaded(e) == e.ev = "loaded"

\* The reference whose processing called the `loaded` of event k: the last
\* one before k in the same frame.
RefOf(log, k) ==
  CHOOSE j \in 1..(k - 1) :
    /\ IsRef(log[j]) /\ log[j].depth = log[k].depth
    /\ \A l \in (j + 1)..(k - 1) :
         ~(IsRef(log[l]) /\ log[l].depth = log[k].depth)

C32_ApiAfterLoaded ==
  last.op = "load" =>
    /\ \A k \in DOMAIN last.log :
         IsLoaded(last.log[k]) =>
           LET e == last.log[k]
               r == last.log[RefOf(last.log, k)]
           IN  /\ r.name = e.name /\ r.this = e.this
               /\ e.slot = r.slot
               /\ e.throws =>
                    /\ last.err = "LoadedError"
                    /\ k = Len(last.log)
                    /\ hosts[e.this].props[e.name] = r.slot
    /\ last.err = "LoadedError" =>
         /\ last.log # <<>>
         /\ IsLoaded(last.log[Len(last.log)])
         /\ last.log[Len(last.log)].throws

\* A load of two references: the one processed first (the last argument)
\* is to a subject attached by an earlier load; its `loaded` throws.
C32_Witness ==
  /\ last.op = "load" /\ last.err = "LoadedError"
  /\ Len(last.args) = 2
  /\ Len(last.log) = 2
  /\ last.log[2].throws
  /\ last.log[2].slot.t = "function"
  /\ hosts[last.host].props[last.log[2].name] = last.log[2].slot

(***************************************************************************)
(* Properties of the attached API.                                         *)
(***************************************************************************)
\* The functions of the API of definition d that a load binds.
OwnFunctionKeys(d) ==
  {d.apiEntries[k].key : k \in {j \in 1..Len(d.apiEntries) :
      d.apiEntries[j].own /\ isFunction(d.apiEntries[j].val)}}

BoundTo(h, x) == \A e \in apiFunctions(hosts[h].props[x]) : e.val.boundThis = h

\* C4: after a load of x into a host, every function of x's api (the single
\* function, or each function entry of the mapping) is a function on the
\* host's slot x, and a call of it runs with the host as receiver, whatever
\* the receiver of the call expression: the host, another object or none.
C4_ReceiverIsHost ==
  /\ \A h \in Hosts, x \in SubjectNames : BoundTo(h, x)
  /\ ( /\ last.op = "load"
       /\ last.err = "none"
       /\ store[refName(last.args[1])] # Absent )
     => LET x == refName(last.args[1])
            d == Catalogue[store[x]]
        IN  d.api # "none" =>
              {e.key : e \in apiFunctions(hosts[last.host].props[x])}
                = OwnFunctionKeys(d)
  /\ last.op = "invoke" =>
       /\ Len(last.log) = 1
       /\ last.log[1].ev = "api"
       /\ last.log[1].this = last.host

\* C4 witness: a function entry of a mapping api, loaded into one host, has
\* been called through the other host and ran with the host it was loaded
\* into as receiver.
C4_Witness ==
  /\ last.op = "invoke"
  /\ last.args[1] = "counter"
  /\ last.args[2] = "get"
  /\ last.args[3] \in Hosts \ {last.host}
  /\ last.log[1].this = last.host

\* C5: one subject loaded into two hosts gives two namespaces, each bound to
\* its own host (two distinct objects); a load changes nothing on the other
\* host; and a value written to the captured variable through one host's
\* API is the value read through the other host's API.
C5_Namespaces ==
  \A x \in SubjectNames :
    (Attached("H1", x) /\ Attached("H2", x))
    => /\ BoundTo("H1", x)
       /\ BoundTo("H2", x)
       /\ hosts["H1"].props[x] # hosts["H2"].props[x]

C5_Step ==
  /\ C5_Namespaces'
  /\ last'.op = "load" =>
       \A h \in Hosts \ {last'.host} : hosts'[h] = hosts[h]
  /\ ( /\ last.op = "invoke" /\ last.args[2] = "put"
       /\ last'.op = "invoke" /\ last'.args[2] = "peek" )
     => last'.log[1].ret = last.args[4]

C5_IndependentNamespaces == [][C5_Step]_vars

\* C5 witness: the captured variable, written through H1's API, has just
\* been read through H2's API, both hosts having the subject loaded.
C5_Witness ==
  /\ Attached("H1", "counter")
  /\ Attached("H2", "counter")
  /\ last.op = "invoke"
  /\ last.host = "H2"
  /\ last.args[2] = "peek"
  /\ last.log[1].ret = 1
  /\ hosts["H1"].n # hosts["H2"].n

(***************************************************************************)
(* C33.  Shared dependencies are loaded once per path, without             *)
(* de-duplication: when the dependency graph below a registered subject is *)
(* acyclic and registered, one load(host, name) calls the `loaded` of a    *)
(* dependency D as many times as there are dependency paths from name to D *)
(* (twice for a diamond), each time with the host as receiver, attaches    *)
(* D's API as many times, and host[D] ends up as the object made by the    *)
(* last of these loads, bound to the host.                                 *)
(***************************************************************************)
OwnDepsOf(x) == IF store[x] = Absent THEN {} ELSE OwnDeps(Catalogue[store[x]])

\* The number of dependency paths, of at most n + 1 edges, from a member of
\* S's parents to d through a member of S.
RECURSIVE PathSum(_, _, _)
PathSum(S, d, n) ==
  IF S = {} THEN 0
  ELSE LET y == CHOOSE z \in S : TRUE
       IN  (IF y = d THEN 1 ELSE 0)
           + (IF n = 0 THEN 0 ELSE PathSum(OwnDepsOf(y), d, n - 1))
           + PathSum(S \ {y}, d, n)

Paths(x, d) == PathSum(OwnDepsOf(x), d, Cardinality(SubjectNames))

\* host[d] before the load: what the first reference to d found there.
SlotBefore(log, d) ==
  LET refs == Indices(log, LAMBDA e : IsRef(e) /\ e.name = d)
  IN  log[CHOOSE k \in refs : \A l \in refs : k <= l].slot

GenOf(slot) == IF slot.t = "undefined" THEN 0 ELSE slot.gen

C33_Case(p) ==
  /\ last.op = "load"
  /\ Len(last.args) = 1
  /\ refName(last.args[1]) = p
  /\ store[p] # Absent
  /\ ~OnCycle(p)
  /\ \A x \in Descendants(p) : x \in SubjectNames /\ store[x] # Absent /\ ~OnCycle(x)

C33_LoadedOncePerPath ==
  \A p \in SubjectNames :
    C33_Case(p) =>
      \A d \in Descendants(p) :
        LET def   == Catalogue[store[d]]
            calls == Indices(last.log, LAMBDA e : IsLoaded(e) /\ e.name = d)
            atts  == Indices(last.log,
                             LAMBDA e : e.ev = "attach" /\ e.name = d)
        IN  /\ Paths(p, d) >= 1
            /\ isFunction(def.loaded) => Cardinality(calls) = Paths(p, d)
            /\ \A k \in calls : last.log[k].this = last.host
            /\ def.api # "none" =>
                 /\ Cardinality(atts) = Paths(p, d)
                 /\ BoundTo(last.host, d)
                 /\ hosts[last.host].props[d].gen
                      = GenOf(SlotBefore(last.log, d)) + Paths(p, d)

\* A load of the top of a diamond: two paths lead to counter, whose
\* `loaded` has run twice.
C33_Witness ==
  /\ C33_Case("family")
  /\ OwnDepsOf("family") = {"parent", "leaf"}
  /\ Paths("family", "counter") = 2
  /\ Cardinality(Indices(last.log,
                         LAMBDA e : IsLoaded(e) /\ e.name = "counter")) = 2
  /\ last.err = "none"

====
